---- MODULE Spec2Model ----
(***************************************************************************)
(* AppendArray<T, N> (src/src/lib.rs): a fixed-capacity, lock-free,        *)
(* append-only array.  Writers reserve a slot with a fetch-and-increment   *)
(* of `ticket`, write the slot, wait until `len` equals their ticket and   *)
(* then publish by incrementing `len`.  Readers take a slice of the first  *)
(* `len` slots.  Atomic operations are modelled as single steps of a       *)
(* sequentially consistent memory; the slot write is not atomic and takes  *)
(* two steps.                                                              *)
(***************************************************************************)
EXTENDS Integers, Sequences, FiniteSets, Bags, TLC

\* ---- bounds of the model ----
NumThreads == 2
MaxCalls == 4

\* const N: usize, the capacity of the array
N == 2

Threads == 1..NumThreads
Items == 1..MaxCalls
Slots == 0..(N - 1)

\* a slot that holds the initialized value it (a T)
Val(it) == [k |-> "val", v |-> it]
Vals == {Val(it) : it \in Items}
\* content of a MaybeUninit slot that holds no valid T
Uninit == [k |-> "uninit", v |-> 0]
\* content of a slot whose non-atomic write has started and not finished
Partial == [k |-> "partial", v |-> 0]

\* outcomes of indexing the slice / of last()
Panic == [k |-> "panic", v |-> 0]
None == [k |-> "none", v |-> 0]
NoResult == [k |-> "noresult", v |-> 0]

VARIABLES
    ticket,     \* AppendArray::ticket
    len,        \* AppendArray::len
    array,      \* AppendArray::array, slot index -> Uninit, Partial or Val(item)
    alive,      \* FALSE once the container has been dropped
    dropped,    \* slot index -> number of times assume_init_drop ran on it
    pc,         \* thread -> position inside append
    item,       \* thread -> argument `item` of the running call
    tk,         \* thread -> local `ticket` of the running call
    calls,      \* number of append calls invoked so far
    oks,        \* bag of [idx, item] of the calls that returned Ok(idx)
    errs,       \* number of calls that returned Err(ArrayFull)
    granted,    \* number of fetch_add results that were < N
    gAtFetch,   \* thread -> were N reservations granted before its fetch_add
    okAtCall,   \* thread -> had N calls returned Ok when the call was invoked
    lenAtCall,  \* thread -> was len = N when the call was invoked
    alone,      \* thread -> every earlier call had returned Ok when the call
                \* was invoked, and no other call was invoked since
    steps,      \* thread -> steps of the running call outside the spin loop
    net,        \* thread -> what the running call has added to `ticket` so far
    want,       \* slot index -> item of the call that was granted that ticket
    hb,         \* thread -> slots whose store by the running call
                \* happens-before its next step
    relLen,     \* slots whose store an acquire load of len synchronizes with
    rhb,        \* slots whose store happens-before the reader's next step
    rpc,        \* reader position: "idle", "view" (holds a slice) or "done"
    rlen,       \* length of the slice the reader holds
    rtrue,      \* value of len at the reader's load
    ridx,       \* index the reader used last
    rres        \* outcome of the reader's last access

\* the happens-before bookkeeping of the writers
sync == <<hb, relLen>>

\* what a call remembers of the moment it was invoked
atCall == <<okAtCall, lenAtCall, alone>>

vars == <<ticket, len, array, alive, dropped, pc, item, tk, calls, oks, errs,
          granted, gAtFetch, atCall, steps, net, want, sync,
          rpc, rlen, rtrue, ridx, rres, rhb>>

appendVars == <<pc, item, tk, calls, oks, errs, granted, gAtFetch, atCall,
                steps, net, want, sync>>
sharedVars == <<ticket, len, array, alive, dropped>>
readerVars == <<rpc, rlen, rtrue, ridx, rres, rhb>>

InFlight(t) == pc[t] # "idle"
NoAppendInFlight == \A t \in Threads : pc[t] = "idle"

\* AppendArray::default()
Init ==
    /\ ticket = 0
    /\ len = 0
    /\ array = [i \in Slots |-> Uninit]
    /\ alive = TRUE
    /\ dropped = [i \in Slots |-> 0]
    /\ pc = [t \in Threads |-> "idle"]
    /\ item = [t \in Threads |-> 0]
    /\ tk = [t \in Threads |-> 0]
    /\ calls = 0
    /\ oks = EmptyBag
    /\ errs = 0
    /\ granted = 0
    /\ gAtFetch = [t \in Threads |-> FALSE]
    /\ okAtCall = [t \in Threads |-> FALSE]
    /\ lenAtCall = [t \in Threads |-> FALSE]
    /\ alone = [t \in Threads |-> FALSE]
    /\ steps = [t \in Threads |-> 0]
    /\ net = [t \in Threads |-> 0]
    /\ want = [i \in Slots |-> 0]
    /\ hb = [t \in Threads |-> {}]
    /\ relLen = {}
    /\ rhb = {}
    /\ rpc = "idle"
    /\ rlen = 0
    /\ rtrue = 0
    /\ ridx = 0
    /\ rres = NoResult

\* a thread calls append(item).  append never inspects a T, so each call
\* passes an item of its own (as tests::stress does): the k-th call passes k.
\* Threads outside append are interchangeable (Leave clears all a thread
\* keeps), so the call is made by the lowest-numbered of them; the threads
\* inside append interleave freely
Invoke(t) ==
    /\ alive
    /\ pc[t] = "idle"
    /\ \A u \in Threads : u < t => pc[u] # "idle"
    /\ calls < MaxCalls
    /\ item' = [item EXCEPT ![t] = calls + 1]
    /\ pc' = [pc EXCEPT ![t] = "fetch_add"]
    /\ calls' = calls + 1
    /\ okAtCall' = [okAtCall EXCEPT ![t] = (BagCardinality(oks) = N)]
    /\ lenAtCall' = [lenAtCall EXCEPT ![t] = (len = N)]
    /\ alone' = [u \in Threads |-> u = t /\ BagCardinality(oks) = calls]
    /\ steps' = [steps EXCEPT ![t] = 0]
    /\ UNCHANGED <<ticket, len, array, alive, dropped, tk, oks, errs, granted,
                   gAtFetch, net, want, sync>>
    /\ UNCHANGED readerVars

\* FetchAdd as a load that leaves the counter alone
FetchAddNoInc(t) ==
    /\ pc[t] = "fetch_add"
    /\ tk' = [tk EXCEPT ![t] = ticket]
    /\ ticket' = ticket
    /\ gAtFetch' = [gAtFetch EXCEPT ![t] = (granted = N)]
    /\ granted' = IF ticket < N THEN granted + 1 ELSE granted
    /\ pc' = [pc EXCEPT ![t] = "check"]
    /\ steps' = [steps EXCEPT ![t] = @ + 1]
    /\ net' = net
    /\ want' = IF ticket < N THEN [want EXCEPT ![ticket] = item[t]] ELSE want
    /\ UNCHANGED <<len, array, alive, dropped, item, calls, oks, errs,
                   atCall, sync>>
    /\ UNCHANGED readerVars

\* let ticket = self.ticket.fetch_add(1, Ordering::Relaxed);
FetchAdd(t) ==
    /\ pc[t] = "fetch_add"
    /\ tk' = [tk EXCEPT ![t] = ticket]
    /\ ticket' = ticket + 1
    /\ gAtFetch' = [gAtFetch EXCEPT ![t] = (granted = N)]
    /\ granted' = IF ticket < N THEN granted + 1 ELSE granted
    /\ pc' = [pc EXCEPT ![t] = "check"]
    /\ steps' = [steps EXCEPT ![t] = @ + 1]
    /\ net' = [net EXCEPT ![t] = @ + 1]
    /\ want' = IF ticket < N THEN [want EXCEPT ![ticket] = item[t]] ELSE want
    /\ UNCHANGED <<len, array, alive, dropped, item, calls, oks, errs,
                   atCall, sync>>
    /\ UNCHANGED readerVars

\* IsFull one too early
IsFullEarly(tkt) == tkt >= N - 1

\* IsFull one too late
IsFullLate(tkt) == tkt > N

\* the condition of `if ticket >= N`
IsFull(tkt) == tkt >= N

\* if ticket >= N { ... } else fall through to the store
Check(t) ==
    /\ pc[t] = "check"
    /\ pc' = [pc EXCEPT ![t] = IF IsFull(tk[t]) THEN "rollback" ELSE "write"]
    /\ steps' = [steps EXCEPT ![t] = @ + 1]
    /\ UNCHANGED <<ticket, len, array, alive, dropped, item, tk, calls, oks,
                   errs, granted, gAtFetch, atCall, net, want, sync>>
    /\ UNCHANGED readerVars

\* Rollback that takes two off the counter
RollbackTwo(t) ==
    /\ pc[t] = "rollback"
    /\ ticket' = ticket - 2
    /\ pc' = [pc EXCEPT ![t] = "ret_err"]
    /\ steps' = [steps EXCEPT ![t] = @ + 1]
    /\ net' = [net EXCEPT ![t] = @ - 2]
    /\ UNCHANGED <<len, array, alive, dropped, item, tk, calls, oks, errs,
                   granted, gAtFetch, atCall, want, sync>>
    /\ UNCHANGED readerVars

\* Rollback that leaves the counter alone
RollbackNone(t) ==
    /\ pc[t] = "rollback"
    /\ ticket' = ticket
    /\ pc' = [pc EXCEPT ![t] = "ret_err"]
    /\ steps' = [steps EXCEPT ![t] = @ + 1]
    /\ net' = net
    /\ UNCHANGED <<len, array, alive, dropped, item, tk, calls, oks, errs,
                   granted, gAtFetch, atCall, want, sync>>
    /\ UNCHANGED readerVars

\* self.ticket.fetch_sub(1, Ordering::Relaxed); return Err(ArrayFull) follows
Rollback(t) ==
    /\ pc[t] = "rollback"
    /\ ticket' = ticket - 1
    /\ pc' = [pc EXCEPT ![t] = "ret_err"]
    /\ steps' = [steps EXCEPT ![t] = @ + 1]
    /\ net' = [net EXCEPT ![t] = @ - 1]
    /\ UNCHANGED <<len, array, alive, dropped, item, tk, calls, oks, errs,
                   granted, gAtFetch, atCall, want, sync>>
    /\ UNCHANGED readerVars

\* WriteSlot as the current length instead of the ticket
WriteSlotAtLen(t) == len

\* the slot the store of `item` goes to: self.array[ticket]
WriteSlot(t) == tk[t]

\* UnsafeCell::raw_get(self.array[ticket].as_ptr()).write(item): first part
\* of the plain store, the slot holds a torn value
WriteBegin(t) ==
    /\ pc[t] = "write"
    /\ IF WriteSlot(t) \in Slots
       THEN /\ array' = [array EXCEPT ![WriteSlot(t)] = Partial]
            /\ pc' = [pc EXCEPT ![t] = "writing"]
       ELSE \* self.array[ticket] is bounds-checked: the thread panics
            /\ array' = array
            /\ pc' = [pc EXCEPT ![t] = "panicked"]
    /\ steps' = [steps EXCEPT ![t] = @ + 1]
    /\ UNCHANGED <<ticket, len, alive, dropped, item, tk, calls, oks, errs,
                   granted, gAtFetch, atCall, net, want, sync>>
    /\ UNCHANGED readerVars

\* the store completes, the slot holds `item`
WriteEnd(t) ==
    /\ pc[t] = "writing"
    /\ array' = [array EXCEPT ![WriteSlot(t)] = Val(item[t])]
    /\ hb' = [hb EXCEPT ![t] = @ \cup {WriteSlot(t)}]
    /\ pc' = [pc EXCEPT ![t] = "spin"]
    /\ steps' = [steps EXCEPT ![t] = @ + 1]
    /\ UNCHANGED <<ticket, len, alive, dropped, item, tk, calls, oks, errs,
                   granted, gAtFetch, atCall, net, want, relLen>>
    /\ UNCHANGED readerVars

\* the orderings that make a load an acquire operation
Acquires(o) == o \in {"Acquire", "AcqRel", "SeqCst"}

\* the orderings that make a write a release operation
Releases(o) == o \in {"Release", "AcqRel", "SeqCst"}

\* what happens-before a thread after it loads len with ordering o: an
\* acquire load synchronizes with the release operations whose release
\* sequences the value it reads belongs to (rel), any other load with nothing
AfterLoad(o, mine, rel) == IF Acquires(o) THEN mine \cup rel ELSE mine

\* what an acquire load of len synchronizes with after thread-view `mine`
\* writes len by operation op with ordering o: a read-modify-write continues
\* the release sequences of the value it replaces, a plain store ends them;
\* a release operation heads a sequence of its own
AfterWrite(op, o, rel, mine) ==
    (IF op = "fetch_add" THEN rel ELSE {})
        \cup (IF Releases(o) THEN mine ELSE {})

\* self.len.load(Ordering::Relaxed) in the loop
SpinOrdering == "Relaxed"

\* PublishOp as a plain store of the new length
PublishOpStore == "store"

\* self.len.fetch_add(1, ...): a read-modify-write
PublishOp == "fetch_add"

\* self.len.fetch_add(1, Ordering::Release)
PublishOrdering == "Release"

\* self.len.load(Ordering::Acquire) in deref
DerefOrdering == "Acquire"

\* MustSpin that never waits
MustSpinNever(t) == FALSE

\* MustSpin that waits for the length after its own publication
MustSpinOffByOne(t) == len # tk[t] + 1

\* MustSpin that waits until its ticket is the last one handed out
MustSpinOnTicket(t) == ticket # tk[t] + 1

\* the loop condition `self.len.load(Ordering::Relaxed) != ticket`
MustSpin(t) == len # tk[t]

\* one iteration of the loop: core::hint::spin_loop()
SpinWait(t) ==
    /\ pc[t] = "spin"
    /\ MustSpin(t)
    /\ hb' = [hb EXCEPT ![t] = AfterLoad(SpinOrdering, @, relLen)]
    /\ UNCHANGED <<ticket, len, array, alive, dropped, pc, item, tk, calls,
                   oks, errs, granted, gAtFetch, atCall, steps, net, want,
                   relLen>>
    /\ UNCHANGED readerVars

\* the load that ends the loop
SpinExit(t) ==
    /\ pc[t] = "spin"
    /\ ~MustSpin(t)
    /\ hb' = [hb EXCEPT ![t] = AfterLoad(SpinOrdering, @, relLen)]
    /\ pc' = [pc EXCEPT ![t] = "publish"]
    /\ steps' = [steps EXCEPT ![t] = @ + 1]
    /\ UNCHANGED <<ticket, len, array, alive, dropped, item, tk, calls, oks,
                   errs, granted, gAtFetch, atCall, net, want, relLen>>
    /\ UNCHANGED readerVars

\* Publish as a store of the ticket: one too small
PublishStoreTicket(t) ==
    /\ pc[t] = "publish"
    /\ len' = tk[t]
    /\ relLen' = AfterWrite(PublishOp, PublishOrdering, relLen, hb[t])
    /\ pc' = [pc EXCEPT ![t] = "ret_ok"]
    /\ steps' = [steps EXCEPT ![t] = @ + 1]
    /\ UNCHANGED <<ticket, array, alive, dropped, item, tk, calls, oks, errs,
                   granted, gAtFetch, atCall, net, want, hb>>
    /\ UNCHANGED readerVars

\* self.len.fetch_add(1, Ordering::Release);
Publish(t) ==
    /\ pc[t] = "publish"
    /\ len' = len + 1
    /\ relLen' = AfterWrite(PublishOp, PublishOrdering, relLen, hb[t])
    /\ pc' = [pc EXCEPT ![t] = "ret_ok"]
    /\ steps' = [steps EXCEPT ![t] = @ + 1]
    /\ UNCHANGED <<ticket, array, alive, dropped, item, tk, calls, oks, errs,
                   granted, gAtFetch, atCall, net, want, hb>>
    /\ UNCHANGED readerVars

\* the call's frame is gone: its locals no longer exist.  The next call of
\* the thread is treated as made by a thread that has stored nothing yet:
\* this only removes happens-before edges
Leave(t) ==
    /\ pc' = [pc EXCEPT ![t] = "idle"]
    /\ item' = [item EXCEPT ![t] = 0]
    /\ tk' = [tk EXCEPT ![t] = 0]
    /\ gAtFetch' = [gAtFetch EXCEPT ![t] = FALSE]
    /\ okAtCall' = [okAtCall EXCEPT ![t] = FALSE]
    /\ lenAtCall' = [lenAtCall EXCEPT ![t] = FALSE]
    /\ alone' = [alone EXCEPT ![t] = FALSE]
    /\ steps' = [steps EXCEPT ![t] = 0]
    /\ net' = [net EXCEPT ![t] = 0]
    /\ hb' = [hb EXCEPT ![t] = {}]

\* RetVal as the length after the publication
RetValLen(t) == len

\* the index in Ok(ticket)
RetVal(t) == tk[t]

\* Ok(ticket)
ReturnOk(t) ==
    /\ pc[t] = "ret_ok"
    /\ oks' = oks (+) SetToBag({[idx |-> RetVal(t), item |-> item[t]]})
    /\ Leave(t)
    /\ UNCHANGED <<ticket, len, array, alive, dropped, calls, errs, granted,
                   want, relLen>>
    /\ UNCHANGED readerVars

\* return Err(AppendArrayError::ArrayFull);
ReturnErr(t) ==
    /\ pc[t] = "ret_err"
    /\ errs' = errs + 1
    /\ Leave(t)
    /\ UNCHANGED <<ticket, len, array, alive, dropped, calls, oks, granted,
                   want, relLen>>
    /\ UNCHANGED readerVars

\* one step of thread t inside append
AppendStep(t) ==
    \/ FetchAdd(t)
    \/ Check(t)
    \/ Rollback(t)
    \/ WriteBegin(t)
    \/ WriteEnd(t)
    \/ SpinWait(t)
    \/ SpinExit(t)
    \/ Publish(t)
    \/ ReturnOk(t)
    \/ ReturnErr(t)

\* DerefLen as the whole storage
DerefLenAll == N

\* the length of the slice: self.len.load(Ordering::Acquire)
DerefLen == len

\* Deref::deref: the reader takes the slice &array[..]
ReaderDeref ==
    /\ alive
    /\ rpc = "idle"
    /\ rlen' = DerefLen
    /\ rtrue' = len
    /\ rhb' = AfterLoad(DerefOrdering, rhb, relLen)
    /\ rpc' = "view"
    /\ UNCHANGED <<ridx, rres>>
    /\ UNCHANGED sharedVars
    /\ UNCHANGED appendVars

\* slice[i] on a slice of length n over the storage: the bounds check of the
\* slice, then a plain load from slot i
SliceIndex(n, i) == IF i < n THEN array[i] ELSE Panic

\* array[i] (tests::it_works, tests::oob), any index up to N
ReaderIndex(i) ==
    /\ rpc = "view"
    /\ ridx' = i
    /\ rres' = SliceIndex(rlen, i)
    /\ rpc' = "done"
    /\ UNCHANGED <<rlen, rtrue, rhb>>
    /\ UNCHANGED sharedVars
    /\ UNCHANGED appendVars

\* slice.last() on a slice of length n: None when empty, else slot n - 1
SliceLast(n) == IF n = 0 THEN None ELSE array[n - 1]

\* array.last() (tests::stress)
ReaderLast ==
    /\ rpc = "view"
    /\ ridx' = rlen - 1
    /\ rres' = SliceLast(rlen)
    /\ rpc' = "done"
    /\ UNCHANGED <<rlen, rtrue, rhb>>
    /\ UNCHANGED sharedVars
    /\ UNCHANGED appendVars

\* the reader lets go of the slice and of what it read; the next slice is
\* taken by a reader thread that has synchronized with nothing yet
ReaderRelease ==
    /\ rpc = "done"
    /\ rpc' = "idle"
    /\ rlen' = 0
    /\ rtrue' = 0
    /\ ridx' = 0
    /\ rres' = NoResult
    /\ rhb' = {}
    /\ UNCHANGED sharedVars
    /\ UNCHANGED appendVars

\* DropEnd as the whole storage
DropEndAll == N

\* the upper end of the loop `for i in 0..self.len.load(Ordering::Relaxed)`
DropEnd == len

\* the loop of Drop::drop from index i: self.array[i].assume_init_drop()
RECURSIVE DropLoop(_, _, _)
DropLoop(i, end, d) ==
    IF i >= end THEN d
    ELSE DropLoop(i + 1, end, [d EXCEPT ![i] = @ + 1])

\* Drop::drop(&mut self): needs exclusive access, so no call is in flight and
\* no slice is held
Drop ==
    /\ alive
    /\ NoAppendInFlight
    /\ rpc = "idle"
    /\ dropped' = DropLoop(0, DropEnd, dropped)
    /\ alive' = FALSE
    /\ UNCHANGED <<ticket, len, array>>
    /\ UNCHANGED appendVars
    /\ UNCHANGED readerVars

Next ==
    \/ \E t \in Threads : Invoke(t)
    \/ \E t \in Threads : AppendStep(t)
    \/ ReaderDeref
    \/ \E i \in 0..N : ReaderIndex(i)
    \/ ReaderLast
    \/ ReaderRelease
    \/ Drop

Spec == Init /\ [][Next]_vars

\* every thread inside append keeps being scheduled: each is an OS thread of
\* its own (std::thread::scope in the tests) and append never blocks it
Fairness == \A t \in Threads : WF_vars(AppendStep(t))

\* the writers and the drop alone.  The reader writes nothing a writer reads,
\* so it cannot change whether a call returns
NextWriters ==
    \/ \E t \in Threads : Invoke(t)
    \/ \E t \in Threads : AppendStep(t)
    \/ Drop

FairSpec == Init /\ [][NextWriters]_vars /\ Fairness

\* ---- helpers of the properties ----

\* the indices returned so far
OkIdx == {r.idx : r \in BagToSet(oks)}

\* the number of calls that have returned Ok
OkCount == BagCardinality(oks)

\* a call on the ArrayFull path between its increment and its decrement
FailingInFlight(t) ==
    \/ pc[t] = "check" /\ tk[t] >= N
    \/ pc[t] = "rollback"

\* ---- C1 ----
\* C1: at most N calls return Ok; the returned indices are pairwise different
\* and lie in [0, N); whenever no append is in flight the returned indices are
\* exactly 0 .. k-1, k the number of Ok returns.
C1_DistinctDenseIndices ==
    /\ OkCount <= N
    /\ \A r \in BagToSet(oks) : r.idx \in 0..(N - 1) /\ CopiesIn(r, oks) = 1
    /\ \A r1, r2 \in BagToSet(oks) : r1.idx = r2.idx => r1 = r2
    /\ NoAppendInFlight => OkIdx = 0..(OkCount - 1)

\* all N slots were handed out, some call was refused, nothing is in flight
C1_Witness ==
    /\ NoAppendInFlight
    /\ OkCount = N
    /\ errs > 0

\* ---- C2 ----
\* C2: every slot below len holds the complete item of the call that holds
\* its ticket, and what a reader loads from a slot below the length it
\* observed is such an item, never an uninitialized or half-written slot.
C2_PublishedSlotsWritten ==
    /\ \A i \in Slots : i < len => array[i] \in Vals /\ array[i].v = want[i]
    /\ rpc \in {"view", "done"} => rlen <= len
    /\ (rpc = "done" /\ rres \notin {Panic, None}) =>
           /\ rres \in Vals
           /\ ridx \in Slots
           /\ rres.v = want[ridx]

\* the reader has read an item while a writer is in the middle of its store
C2_Witness ==
    /\ rpc = "done"
    /\ rres \in Vals
    /\ \E t \in Threads : pc[t] = "writing" /\ array[tk[t]] = Partial

\* ---- C3 ----
\* C3: a call invoked after N calls have returned Ok never reaches the store,
\* the wait or the publication, it can only return ArrayFull; and len <= N.
C3_FullForever ==
    /\ len <= N
    /\ \A t \in Threads :
          okAtCall[t] =>
             /\ pc[t] \in {"fetch_add", "check", "rollback", "ret_err"}
             /\ pc[t] \in {"check", "rollback", "ret_err"} => tk[t] >= N

\* a call invoked when full is about to return ArrayFull while another
\* refused call has not yet undone its increment
C3_Witness ==
    \E t, u \in Threads :
       /\ t # u
       /\ okAtCall[t] /\ pc[t] = "ret_err"
       /\ okAtCall[u] /\ pc[u] = "rollback"

\* ---- C4 ----
\* C4: a call on the ArrayFull path made its fetch-and-increment when N
\* successful reservations had already been granted.
C4_NoFalseFull ==
    \A t \in Threads :
       (FailingInFlight(t) \/ pc[t] = "ret_err") => gAtFetch[t]

\* a call is refused with a ticket above N: another refused call was between
\* its increment and its decrement when this one fetched
C4_Witness ==
    \E t \in Threads : pc[t] = "ret_err" /\ tk[t] > N

\* ---- C5 ----
\* C5: whenever no append is in flight, len is the number of Ok returns and
\* slot i holds the item of the one call that returned i, for every i < len.
C5_ContentMatchesReturns ==
    NoAppendInFlight =>
       /\ len = OkCount
       /\ \A i \in Slots :
             i < len => CopiesIn([idx |-> i, item |-> array[i].v], oks) = 1
       /\ \A r \in BagToSet(oks) :
             r.idx \in Slots /\ array[r.idx] = Val(r.item)

\* the array is full after a refused call, and the items are not in the
\* order of the calls: the second call got the first ticket
C5_Witness ==
    /\ NoAppendInFlight
    /\ len = N
    /\ array[0] = Val(2)
    /\ errs > 0

\* ---- C6 ----
\* C6: published slots are write-once: no step changes a slot below len, and
\* len never shrinks, so the readable view before a step is a prefix of the
\* readable view after it, whatever successful or refused appends run.
C6_PublishedWriteOnce ==
    [][/\ len' >= len
       /\ \A i \in Slots : i < len => array'[i] = array[i]]_vars

\* a reader still holds a shorter view of an array that is now full and has
\* refused a call
C6_Witness ==
    /\ rpc = "view"
    /\ rlen < len
    /\ len = N
    /\ errs > 0

\* ---- C7 ----
\* a call that is going to be refused, or has been
OnFullPath(t) ==
    \/ pc[t] = "fetch_add" /\ ticket >= N
    \/ FailingInFlight(t)
    \/ pc[t] = "ret_err"

\* C7: no step of a refused call changes a slot or len; when it returns it has
\* taken off the ticket counter exactly what it added; and whenever no
\* refused call is between its increment and its decrement the ticket counter
\* is the number of successful reservations, as if no call had been refused.
C7_RefusedCallLeavesNoTrace ==
    /\ [](\A t \in Threads : pc[t] = "ret_err" => net[t] = 0)
    /\ []((\A t \in Threads : ~FailingInFlight(t)) => ticket = granted)
    /\ [][\A t \in Threads :
            (OnFullPath(t) /\ pc'[t] # pc[t]) =>
               (array' = array /\ len' = len)]_vars

\* two calls were refused and have returned; the counters are those of the N
\* successful calls
C7_Witness ==
    /\ NoAppendInFlight
    /\ errs >= 2
    /\ ticket = N
    /\ len = N

\* ---- C8 ----
\* the slots drop has destructed
DroppedSlots == {i \in Slots : dropped[i] > 0}

\* C8: nothing is destructed while the container lives; after the drop every
\* slot below len was destructed exactly once and no other slot was touched,
\* and the destructed elements are exactly the items of the Ok calls.
C8_DropExactlyPublished ==
    /\ alive => DroppedSlots = {}
    /\ ~alive =>
          /\ \A i \in Slots : dropped[i] = IF i < len THEN 1 ELSE 0
          /\ \A i \in DroppedSlots : array[i] \in Vals
          /\ {array[i].v : i \in DroppedSlots} = {r.item : r \in BagToSet(oks)}
          /\ Cardinality(DroppedSlots) = OkCount

\* the container was dropped partly filled
C8_Witness ==
    /\ ~alive
    /\ len > 0
    /\ len < N

\* ---- C9 ----
\* C9: indexing at or beyond the length the read observed panics; the only
\* slot contents indexing ever yields are published items.
C9_OutOfRangePanics ==
    rpc = "done" =>
       /\ ridx >= rtrue => rres = Panic
       /\ (rres # Panic /\ rres # None) => (ridx < len /\ rres \in Vals)

\* the reader indexed a slot that is reserved and half written, and panicked
C9_Witness ==
    /\ rpc = "done"
    /\ rres = Panic
    /\ ridx \in Slots
    /\ array[ridx] = Partial

\* ---- C10 ----
\* C10: a call invoked when len = N stays on the ArrayFull path (it never
\* stores, waits or publishes), always has a step of its own to take whatever
\* the other threads do, and is about to return ArrayFull after exactly three
\* steps: fetch_add, compare, fetch_sub.
C10_FullCallsEndPromptly ==
    \A t \in Threads :
       lenAtCall[t] =>
          /\ pc[t] \in {"fetch_add", "check", "rollback", "ret_err"}
          /\ ENABLED <<AppendStep(t)>>_vars
          /\ steps[t] <= 3
          /\ pc[t] = "ret_err" <=> steps[t] = 3

\* two calls invoked on a full array run together: one has taken its three
\* steps, the other is at the comparison
C10_Witness ==
    \E t, u \in Threads :
       /\ t # u
       /\ lenAtCall[t] /\ pc[t] = "ret_err" /\ steps[t] = 3
       /\ lenAtCall[u] /\ pc[u] = "check"

\* ---- C11 ----
\* C11: when a call is about to return Ok(r), len >= r + 1 and slot r holds
\* the item it was given, so indexing the array at r does not panic.
C11_OkOnlyAfterPublished ==
    \A t \in Threads :
       pc[t] = "ret_ok" =>
          /\ len >= tk[t] + 1
          /\ array[tk[t]] = Val(item[t])
          /\ SliceIndex(DerefLen, tk[t]) = Val(item[t])

\* a call is about to return Ok(r) and the next ticket is already published
C11_Witness ==
    \E t \in Threads : pc[t] = "ret_ok" /\ len > tk[t] + 1

\* ---- C12 ----
\* C12: len changes only by + 1, and the step from r to r + 1 is the publish
\* step of the call that holds ticket r, taken after that call has stored its
\* item in slot r; after the step every slot below len is completely written.
C12_PublishInTicketOrder ==
    [][len' # len =>
         /\ len' = len + 1
         /\ \E t \in Threads :
               /\ pc[t] = "publish" /\ pc'[t] = "ret_ok"
               /\ tk[t] = len
               /\ array[len] = Val(item[t])
         /\ \A i \in Slots : i < len' => array'[i] \in Vals]_vars

\* the holder of ticket 1 stored its item first and has waited: it is at the
\* wait with ticket 0 just published by the other call
C12_Witness ==
    \E t, u \in Threads :
       /\ pc[t] = "ret_ok" /\ tk[t] = 0
       /\ pc[u] = "spin" /\ tk[u] = 1
       /\ len = 1

\* ---- C13 ----
\* C13: 0 <= len <= E <= N, E the number of fetch_add results below N.
C13_CounterOrder ==
    /\ 0 <= len
    /\ len <= granted
    /\ granted <= N
    /\ granted = Cardinality({i \in Slots : want[i] # 0})

\* all N reservations are granted, not all are published yet, and the raw
\* counter has overshot
C13_Witness ==
    /\ len < granted
    /\ granted = N
    /\ ticket > N

\* ---- C14 ----
\* the holder of ticket len is in flight at one of the positions ps
HolderAt(ps) == \E u \in Threads : tk[u] = len /\ pc[u] \in ps

\* some call waits for an earlier ticket
WaitsForEarlier(t) == pc[t] = "spin" /\ len < tk[t]

\* C14 as claimed: under weak fairness every call returns, and whenever a
\* call spins with ticket r and len < r, the holder of ticket len is in flight
\* at the store, the spin check or the publish step.
C14_AsClaimed ==
    /\ [](\A t \in Threads :
            WaitsForEarlier(t) =>
               HolderAt({"write", "writing", "spin", "publish"}))
    /\ \A t \in Threads : (pc[t] # "idle") ~> (pc[t] = "idle")

\* C14: under weak fairness every call returns, and whenever a call spins
\* with ticket r and len < r, the holder of ticket len is in flight at the
\* capacity check, the store, the spin check or the publish step.
C14_EveryCallReturns ==
    /\ [](\A t \in Threads :
            WaitsForEarlier(t) =>
               HolderAt({"check", "write", "writing", "spin", "publish"}))
    /\ \A t \in Threads : (pc[t] # "idle") ~> (pc[t] = "idle")

\* a call waits for ticket len, whose holder has fetched it and not yet
\* compared it with N
C14_Witness ==
    \E t \in Threads :
       /\ WaitsForEarlier(t)
       /\ HolderAt({"check"})

\* ---- C15 ----
\* thread v holds the ticket just before u's and has not yet published it
PredecessorPending(u, v) ==
    /\ tk[v] = tk[u] - 1
    /\ pc[v] \in {"check", "write", "writing", "spin", "publish"}

\* C15: a call at the spin loop has to go on waiting exactly when the holder
\* of the ticket just before its own has not yet executed its publish
\* increment; and no step of any other thread (a holder of a later ticket, a
\* call on the ArrayFull path, a call that has returned) changes whether it
\* has to wait.
C15_WaitsOnlyForPredecessor ==
    /\ [](\A u \in Threads :
            pc[u] = "spin" =>
               (MustSpin(u) <=>
                   \E v \in Threads \ {u} : PredecessorPending(u, v)))
    /\ [][\A u \in Threads : \A v \in Threads \ {u} :
            (/\ pc[u] = "spin"
             /\ pc'[v] # pc[v]
             /\ ~PredecessorPending(u, v)) =>
               (MustSpin(u)' <=> MustSpin(u))]_vars

\* the holder of ticket 1 is at the loop, ticket 0 is published and its call
\* has returned: the wait is over although a later call could be running
C15_Witness ==
    \E u \in Threads :
       /\ pc[u] = "spin" /\ tk[u] = 1
       /\ ~MustSpin(u)
       /\ OkCount = 1

\* ---- C16 ----
\* C16: the ticket a call fetches is larger than every index any call has
\* returned by then, so the index it returns is larger than every index
\* returned before it was invoked; and when every earlier call had returned
\* Ok before it was invoked and no other call runs beside it (as for one
\* thread appending alone to an empty array), the k-th call returns k - 1.
C16_IndicesFollowCallOrder ==
    /\ [][\A t \in Threads :
            (pc[t] = "fetch_add" /\ pc'[t] = "check") =>
               \A r \in BagToSet(oks) : r.idx < tk'[t]]_vars
    /\ [](\A t \in Threads :
            pc[t] = "ret_ok" =>
               /\ RetVal(t) >= tk[t]
               /\ \A r \in BagToSet(oks) : r.idx # RetVal(t)
               /\ alone[t] => RetVal(t) = item[t] - 1)

\* the second call, invoked after the first had returned 0, is about to
\* return 1
C16_Witness ==
    \E t \in Threads :
       /\ pc[t] = "ret_ok"
       /\ alone[t]
       /\ OkIdx = {0}
       /\ RetVal(t) = 1

\* ---- C17 ----
\* thread t holds the reservation of slot i and has not yet published it
Owns(t, i) ==
    /\ tk[t] = i
    /\ pc[t] \in {"check", "write", "writing", "spin", "publish"}

\* the ownership invariant, for the calls at the positions ps
Ownership(ps) ==
    /\ \A i \in Slots :
          (len <= i /\ i < granted) =>
             Cardinality({t \in Threads : Owns(t, i)}) = 1
    /\ \A t \in Threads :
          pc[t] \in ps => (len <= tk[t] /\ tk[t] < granted)
    /\ \A i \in Slots :
          array[i] = Partial =>
             /\ i >= len
             /\ Cardinality({t \in Threads : pc[t] = "writing" /\ tk[t] = i}) = 1
    /\ \A i \in Slots : i >= granted => array[i] = Uninit

\* C17 as claimed: every slot in [len, E) is owned by exactly one call in
\* flight, and every call in flight that has passed the capacity check owns
\* one slot of [len, E); a slot being written has one writer and lies outside
\* the readable range; the slots of [E, N) have never been written.
C17_AsClaimed ==
    Ownership({"write", "writing", "spin", "publish", "ret_ok"})

\* C17: every slot in [len, E) is owned by exactly one call in flight, and
\* every call that has passed the capacity check and has not yet executed
\* its publish increment owns one slot of [len, E); a slot being written has
\* one writer and lies outside the readable range; the slots of [E, N) have
\* never been written.
C17_ExclusiveOwnership ==
    Ownership({"write", "writing", "spin", "publish"})

\* two calls are in the middle of their stores, each into its own slot
C17_Witness ==
    \E t, u \in Threads :
       /\ t # u
       /\ pc[t] = "writing" /\ pc[u] = "writing"
       /\ array[tk[t]] = Partial /\ array[tk[u]] = Partial

\* ---- C18 ----
\* the calls on the ArrayFull path between increment and decrement
Failing == {t \in Threads : FailingInFlight(t)}

\* C18: the raw ticket counter is E plus the number of refused calls between
\* their increment and their decrement; so it is at most N plus the number of
\* calls in flight, it exceeds N only while such a refused call is in flight,
\* and with no call in flight it equals len.
C18_RawTicketCounter ==
    /\ ticket = granted + Cardinality(Failing)
    /\ ticket <= N + Cardinality({t \in Threads : InFlight(t)})
    /\ ticket > N => Failing # {}
    /\ NoAppendInFlight => ticket = len

\* the counter has overshot by two: two refused calls have not yet undone
\* their increments
C18_Witness ==
    /\ ticket = N + 2
    /\ Cardinality(Failing) = 2

\* ---- C19 ----
\* C19: the publish increment is a release operation and the load in deref an
\* acquire operation, the load in the spin loop is Relaxed, and still the
\* store into every slot below the length a reader observed happens-before
\* the reader's accesses; the same holds for any acquire load of the current
\* value of len.
C19_ReaderSeesAllStores ==
    /\ Releases(PublishOrdering)
    /\ Acquires(DerefOrdering)
    /\ ~Acquires(SpinOrdering)
    /\ \A i \in Slots : i < len => i \in relLen
    /\ rpc \in {"view", "done"} => \A i \in Slots : i < rlen => i \in rhb

\* the reader observed the full length; the call whose increment it observed
\* is still about to return, and the store into slot 0 was made by another
\* thread and does not happen-before that call's increment
C19_Witness ==
    /\ rpc = "view"
    /\ rlen = N
    /\ 0 \in rhb
    /\ \E t \in Threads : pc[t] = "ret_ok" /\ tk[t] = N - 1 /\ 0 \notin hb[t]

====
